---- MODULE Spec2Model ----
(***************************************************************************)
(* Split-pane layout engine: ResizableContainer (proportions, widths,     *)
(* constrained redistribution on drag) and DragHandler (Idle / Dragging).  *)
(* float64 proportions are modelled as exact rationals [n, d] in lowest    *)
(* terms with d > 0; int(x) is truncation toward zero.                     *)
(***************************************************************************)
EXTENDS Integers, Sequences, FiniteSets, TLC

VARIABLES
    args,          \* the arguments NewResizableContainer was called with
    panicked,      \* NewResizableContainer panicked: there is no container
    initialized,   \* model.isInitialized(): a WindowSizeMsg has set the terminal size
    children,      \* r.children: the size each child (list) was last told
    proportions,   \* r.proportions
    width,         \* r.width
    height,        \* r.height
    state,         \* r.dragHandler.state
    dragHandleID,  \* r.dragHandler.dragHandleID
    lastX,         \* r.dragHandler.lastX
    marked,        \* handle ids marked in the zone registry by the last View
    rendered,      \* the parts View returned, if the last step was a View
    zoneEnabled,   \* zone.Enabled()
    lastMsg,       \* the message processed by the last step
    prevMsg,       \* the message processed by the step before it
    inZone,        \* the registry's answer for the last mouse message
    report,        \* what HandleMouseEvent returned in the last step
    forwarded,     \* child.Update calls made by the last step, in order
    session,       \* history of the drag session: X of its press, sum of its deltas
    steps,         \* number of messages delivered so far
    search,        \* the file-search program's model struct
    pending,       \* its commands that have not delivered their message yet
    searchLog      \* the last message it processed, the commands that step
                   \* issued, and the last search issued so far

vars == <<search, pending, searchLog, rendered, args, panicked, initialized, children, proportions, width, height, state, dragHandleID, lastX,
          marked, zoneEnabled, lastMsg, prevMsg, inZone, report, forwarded,
          session, steps>>

----------------------------------------------------------------------------
(* Bounds of the model *)

MaxSteps == 4

\* the WindowSizeMsg (width, height) pairs the host delivers
Sizes == {<<0, 1>>, <<1, 6>>, <<41, 6>>, <<100, 6>>}

Xs == {0, 10, 50}

(* Program constants *)

handleWidth == 1

minWidthChars == 35

maxProportion == [n |-> 7, d |-> 10]

DragStateIdle == 0

DragStateDragging == 1

----------------------------------------------------------------------------
(* Exact rational arithmetic standing for float64 *)

Abs(x) == IF x < 0 THEN -x ELSE x

RECURSIVE GCD(_, _)
GCD(a, b) == IF b = 0 THEN a ELSE GCD(b, a % b)

Rat(n, d) ==
    LET s == IF d < 0 THEN -1 ELSE 1
        g == GCD(Abs(n), Abs(d))
    IN  [n |-> (s * n) \div g, d |-> (s * d) \div g]

Zero == [n |-> 0, d |-> 1]

One == [n |-> 1, d |-> 1]

FromInt(i) == [n |-> i, d |-> 1]

RAdd(a, b) == Rat(a.n * b.d + b.n * a.d, a.d * b.d)

RSub(a, b) == Rat(a.n * b.d - b.n * a.d, a.d * b.d)

RMul(a, b) == Rat(a.n * b.n, a.d * b.d)

RDiv(a, b) == Rat(a.n * b.d, a.d * b.n)

RLess(a, b) == a.n * b.d < b.n * a.d

RLeq(a, b) == a.n * b.d <= b.n * a.d

\* int(x): conversion of a float64 to int truncates toward zero
Trunc(a) == IF a.n >= 0 THEN a.n \div a.d ELSE -((-a.n) \div a.d)

RECURSIVE SumTo(_, _)
SumTo(p, k) == IF k = 0 THEN Zero ELSE RAdd(SumTo(p, k - 1), p[k])

Sum(p) == SumTo(p, Len(p))

RECURSIVE IntSumTo(_, _)
IntSumTo(s, k) == IF k = 0 THEN 0 ELSE IntSumTo(s, k - 1) + s[k]

----------------------------------------------------------------------------
(* Handle identifiers: r.id + "handle_" + strconv.Itoa(i); "" is <<>> *)

NoHandle == <<>>

getHandleID(handleIndex) == <<"handle_", handleIndex>>

getHandleIDs(n) == [i \in 1..(n - 1) |-> getHandleID(i - 1)]

----------------------------------------------------------------------------
(* Messages *)

WindowSizeMsg(w, h) == [type |-> "WindowSizeMsg", Width |-> w, Height |-> h]

MouseMsg(a, b, x) == [type |-> "MouseMsg", Action |-> a, Button |-> b, X |-> x]

KeyMsg == [type |-> "KeyMsg"]

NoMsg == [type |-> "none"]

NoReport == [handled |-> FALSE, handleID |-> NoHandle, deltaX |-> 0]

\* no View output
NoRender == <<>>

NoSession == [pressX |-> 0, sumDelta |-> 0]

\* the (Action, Button) pairs the host delivers; a motion carries the held button
MouseEvents ==
    { <<"press", "left">>, <<"press", "right">>,
      <<"release", "left">>, <<"release", "right">>,
      <<"motion", "left">> }

----------------------------------------------------------------------------
(* ResizableContainer *)

\* if len(children) != len(initialProportions) { panic(...) }
lengthsDiffer(nChildren, initialProportions) == nChildren # Len(initialProportions)

\* changed: the proportions are stored as given
NewResizableContainer_noNormalize(initialProportions) == initialProportions

\* NewResizableContainer: initialProportions[i] /= total
NewResizableContainer(initialProportions) ==
    LET total == Sum(initialProportions)
    IN  [i \in 1..Len(initialProportions) |-> RDiv(initialProportions[i], total)]

\* changed: the handle columns are not subtracted
availableWidth_noHandles(w, n) == w

\* r.width - ((len(r.children) - 1) * handleWidth)
availableWidth(w, n) == w - ((n - 1) * handleWidth)

\* childWidth := int(float64(availableWidth) * r.proportions[i])
childWidth(w, p, i) == Trunc(RMul(FromInt(availableWidth(w, Len(p))), p[i]))

\* the WindowSizeMsg built for each child, in child order
childMsgs(w, h, p) == [i \in 1..Len(p) |-> WindowSizeMsg(childWidth(w, p, i), h)]

\* list.Update: a WindowSizeMsg sets the child's width and height
listUpdate(m, msg) ==
    IF msg.type = "WindowSizeMsg"
    THEN [width |-> msg.Width, height |-> msg.Height]
    ELSE m

\* for i, child := range r.children { r.children[i], _ = child.Update(msgs[i]) }
updateChildren(ch, msgs) == [i \in 1..Len(ch) |-> listUpdate(ch[i], msgs[i])]

\* the same message to every child, in child order
propagate(n, msg) == [i \in 1..n |-> msg]

\* changed: the total misses the first entry
normalizeProportions_skipFirst(p) ==
    LET total == RSub(Sum(p), p[1])
    IN  IF RLess(Zero, total)
        THEN [i \in 1..Len(p) |-> RDiv(p[i], total)]
        ELSE p

\* normalizeProportions: divide every entry by the total when total > 0
normalizeProportions(p) ==
    LET total == Sum(p)
    IN  IF RLess(Zero, total)
        THEN [i \in 1..Len(p) |-> RDiv(p[i], total)]
        ELSE p

\* the handle index whose id is handleID, or -1
\* changed: an id that matches no handle is taken for handle 0, if there is one
findHandleIndex_defaultsToZero(n, handleID) ==
    LET found == {i \in 0..(n - 2) : getHandleID(i) = handleID}
    IN  IF found = {} THEN (IF n > 1 THEN 0 ELSE -1)
        ELSE CHOOSE i \in found : \A j \in found : i <= j

findHandleIndex(n, handleID) ==
    LET found == {i \in 0..(n - 2) : getHandleID(i) = handleID}
    IN  IF found = {} THEN -1
        ELSE CHOOSE i \in found : \A j \in found : i <= j

\* changed: the left-min clamp does not give the difference back to the right pane
clampLeftMin_noDonate(L, R, c, minProportion) ==
    IF RLess(c.left, minProportion)
    THEN [left |-> minProportion, right |-> c.right]
    ELSE c

\* changed: the right-min clamp is missing
clampRightMin_missing(L, R, c, minProportion) == c

\* the four clamps of updateProportionsFromDrag, applied in source order;
\* L, R are the pair's proportions before the drag
clampLeftMin(L, R, c, minProportion) ==
    IF RLess(c.left, minProportion)
    THEN [left |-> minProportion, right |-> RAdd(R, RSub(L, minProportion))]
    ELSE c

clampLeftMax(L, R, c) ==
    IF RLess(maxProportion, c.left)
    THEN [left |-> maxProportion, right |-> RAdd(R, RSub(L, maxProportion))]
    ELSE c

clampRightMin(L, R, c, minProportion) ==
    IF RLess(c.right, minProportion)
    THEN [left |-> RAdd(L, RSub(R, minProportion)), right |-> minProportion]
    ELSE c

\* changed: the right-max clamp does not hand the excess to the left pane
clampRightMax_noDonate(L, R, c) ==
    IF RLess(maxProportion, c.right)
    THEN [left |-> c.left, right |-> maxProportion]
    ELSE c

\* changed: the right-max clamp is missing
clampRightMax_missing(L, R, c) == c

clampRightMax(L, R, c) ==
    IF RLess(maxProportion, c.right)
    THEN [left |-> RAdd(L, RSub(R, maxProportion)), right |-> maxProportion]
    ELSE c

\* changed: the minimum is taken against the width with one handle column
minProportionOf_withHandle(avail) == Rat(minWidthChars, avail + handleWidth)

\* minProportion := float64(minWidthChars) / float64(availableWidth)
minProportionOf(avail) == Rat(minWidthChars, avail)

\* changed: the sign of the delta is lost
deltaPercentOf_magnitude(deltaX, avail) == Rat(Abs(deltaX), avail)

\* deltaPercent := float64(deltaX) / float64(availableWidth)
deltaPercentOf(deltaX, avail) == Rat(deltaX, avail)

\* newLeftProp, newRightProp before the clamps
tentative(L, R, deltaX, avail) ==
    [left |-> RAdd(L, deltaPercentOf(deltaX, avail)),
     right |-> RSub(R, deltaPercentOf(deltaX, avail))]

\* none of the four 'if' conditions of the clamps is true for this move
noClampFires(L, R, deltaX, avail) ==
    LET c0 == tentative(L, R, deltaX, avail)
        minProportion == minProportionOf(avail)
    IN  /\ ~RLess(c0.left, minProportion)
        /\ ~RLess(maxProportion, c0.left)
        /\ ~RLess(c0.right, minProportion)
        /\ ~RLess(maxProportion, c0.right)

\* newLeftProp, newRightProp after the tentative move and the clamps
redistribute(L, R, deltaX, avail) ==
    LET c0 == tentative(L, R, deltaX, avail)
        minProportion == minProportionOf(avail)
        c1 == clampLeftMin(L, R, c0, minProportion)
        c2 == clampLeftMax(L, R, c1)
        c3 == clampRightMin(L, R, c2, minProportion)
    IN  clampRightMax(L, R, c3)

\* changed: only availableWidth = 0 is rejected
dragApplies_zeroOnly(p, w, handleID) ==
    /\ findHandleIndex(Len(p), handleID) # -1
    /\ availableWidth(w, Len(p)) # 0

\* the guard of updateProportionsFromDrag: known handle and availableWidth > 0
dragApplies(p, w, handleID) ==
    /\ findHandleIndex(Len(p), handleID) # -1
    /\ availableWidth(w, Len(p)) > 0

updateProportionsFromDrag(p, w, handleID, deltaX) ==
    LET handleIndex == findHandleIndex(Len(p), handleID)
        avail == availableWidth(w, Len(p))
    IN  IF ~dragApplies(p, w, handleID) THEN p
        ELSE LET leftIndex == handleIndex + 1    \* 1-based position of pane handleIndex
                 rightIndex == handleIndex + 2
                 c == redistribute(p[leftIndex], p[rightIndex], deltaX, avail)
             IN  normalizeProportions(
                     [p EXCEPT ![leftIndex] = c.left, ![rightIndex] = c.right])

----------------------------------------------------------------------------
(* DragHandler *)

\* the first handle id, in handleIDs order, whose zone contains the cursor
firstInBounds(handleIDs, inBounds) ==
    LET hit == {i \in 1..Len(handleIDs) : handleIDs[i] \in inBounds}
    IN  IF hit = {} THEN 0 ELSE CHOOSE i \in hit : \A j \in hit : i <= j

\* startDrag: the handler's fields after a drag begins
startDrag(handleID, x) ==
    [state |-> DragStateDragging, dragHandleID |-> handleID, lastX |-> x]

\* changed: the session's handle id and lastX survive the release
stopDrag_keepsSession(d) == [d EXCEPT !.state = DragStateIdle]

\* stopDrag: the handler's fields after a drag ends
stopDrag(d) == [state |-> DragStateIdle, dragHandleID |-> NoHandle, lastX |-> 0]

\* changed: a press on a handle starts a drag whatever the button
HandleMouseEvent_anyButton(d, msg, handleIDs, inBounds) ==
    LET unhandled == [handled |-> FALSE, handleID |-> NoHandle, deltaX |-> 0, d |-> d]
    IN  CASE msg.Action = "press" ->
                IF firstInBounds(handleIDs, inBounds) # 0
                THEN LET handleID == handleIDs[firstInBounds(handleIDs, inBounds)]
                     IN  [handled |-> TRUE, handleID |-> handleID, deltaX |-> 0,
                          d |-> startDrag(handleID, msg.X)]
                ELSE unhandled
          [] msg.Action = "motion" ->
                IF d.state = DragStateDragging
                THEN [handled |-> TRUE, handleID |-> d.dragHandleID,
                      deltaX |-> msg.X - d.lastX,
                      d |-> [d EXCEPT !.lastX = msg.X]]
                ELSE unhandled
          [] msg.Action = "release" ->
                IF d.state = DragStateDragging /\ msg.Button = "left"
                THEN [handled |-> TRUE, handleID |-> d.dragHandleID, deltaX |-> 0,
                      d |-> stopDrag(d)]
                ELSE unhandled
          [] OTHER -> unhandled

\* changed: a motion does not store the cursor position
HandleMouseEvent_staleLastX(d, msg, handleIDs, inBounds) ==
    LET unhandled == [handled |-> FALSE, handleID |-> NoHandle, deltaX |-> 0, d |-> d]
    IN  CASE msg.Action = "press" ->
                IF msg.Button = "left" /\ firstInBounds(handleIDs, inBounds) # 0
                THEN LET handleID == handleIDs[firstInBounds(handleIDs, inBounds)]
                     IN  [handled |-> TRUE, handleID |-> handleID, deltaX |-> 0,
                          d |-> startDrag(handleID, msg.X)]
                ELSE unhandled
          [] msg.Action = "motion" ->
                IF d.state = DragStateDragging
                THEN [handled |-> TRUE, handleID |-> d.dragHandleID,
                      deltaX |-> msg.X - d.lastX, d |-> d]
                ELSE unhandled
          [] msg.Action = "release" ->
                IF d.state = DragStateDragging /\ msg.Button = "left"
                THEN [handled |-> TRUE, handleID |-> d.dragHandleID, deltaX |-> 0,
                      d |-> stopDrag(d)]
                ELSE unhandled
          [] OTHER -> unhandled

\* changed: a motion is reported as a drag delta whatever the state
HandleMouseEvent_noStateCheck(d, msg, handleIDs, inBounds) ==
    LET unhandled == [handled |-> FALSE, handleID |-> NoHandle, deltaX |-> 0, d |-> d]
    IN  CASE msg.Action = "press" ->
                IF msg.Button = "left" /\ firstInBounds(handleIDs, inBounds) # 0
                THEN LET handleID == handleIDs[firstInBounds(handleIDs, inBounds)]
                     IN  [handled |-> TRUE, handleID |-> handleID, deltaX |-> 0,
                          d |-> startDrag(handleID, msg.X)]
                ELSE unhandled
          [] msg.Action = "motion" ->
                [handled |-> TRUE, handleID |-> d.dragHandleID,
                 deltaX |-> msg.X - d.lastX,
                 d |-> [d EXCEPT !.lastX = msg.X]]
          [] msg.Action = "release" ->
                IF d.state = DragStateDragging /\ msg.Button = "left"
                THEN [handled |-> TRUE, handleID |-> d.dragHandleID, deltaX |-> 0,
                      d |-> stopDrag(d)]
                ELSE unhandled
          [] OTHER -> unhandled

\* changed: a release of any button ends the drag
HandleMouseEvent_anyRelease(d, msg, handleIDs, inBounds) ==
    LET unhandled == [handled |-> FALSE, handleID |-> NoHandle, deltaX |-> 0, d |-> d]
    IN  CASE msg.Action = "press" ->
                IF msg.Button = "left" /\ firstInBounds(handleIDs, inBounds) # 0
                THEN LET handleID == handleIDs[firstInBounds(handleIDs, inBounds)]
                     IN  [handled |-> TRUE, handleID |-> handleID, deltaX |-> 0,
                          d |-> startDrag(handleID, msg.X)]
                ELSE unhandled
          [] msg.Action = "motion" ->
                IF d.state = DragStateDragging
                THEN [handled |-> TRUE, handleID |-> d.dragHandleID,
                      deltaX |-> msg.X - d.lastX,
                      d |-> [d EXCEPT !.lastX = msg.X]]
                ELSE unhandled
          [] msg.Action = "release" ->
                IF d.state = DragStateDragging
                THEN [handled |-> TRUE, handleID |-> d.dragHandleID, deltaX |-> 0,
                      d |-> stopDrag(d)]
                ELSE unhandled
          [] OTHER -> unhandled

\* d = [state, dragHandleID, lastX]; the result carries the three return
\* values and the handler's fields afterwards
HandleMouseEvent(d, msg, handleIDs, inBounds) ==
    LET unhandled == [handled |-> FALSE, handleID |-> NoHandle, deltaX |-> 0, d |-> d]
    IN  CASE msg.Action = "press" ->
                IF msg.Button = "left" /\ firstInBounds(handleIDs, inBounds) # 0
                THEN LET handleID == handleIDs[firstInBounds(handleIDs, inBounds)]
                     IN  [handled |-> TRUE, handleID |-> handleID, deltaX |-> 0,
                          d |-> startDrag(handleID, msg.X)]
                ELSE unhandled
          [] msg.Action = "motion" ->
                IF d.state = DragStateDragging
                THEN [handled |-> TRUE, handleID |-> d.dragHandleID,
                      deltaX |-> msg.X - d.lastX,
                      d |-> [d EXCEPT !.lastX = msg.X]]
                ELSE unhandled
          [] msg.Action = "release" ->
                IF d.state = DragStateDragging /\ msg.Button = "left"
                THEN [handled |-> TRUE, handleID |-> d.dragHandleID, deltaX |-> 0,
                      d |-> stopDrag(d)]
                ELSE unhandled
          [] OTHER -> unhandled

IsDragging == state = DragStateDragging

----------------------------------------------------------------------------
(* The file-search program (src/main.go, second program): model.Update *)

MaxSearchSteps == 6
MaxQueryLen == 2
SearchChars == {"a", "b"}
SearchHeights == {10, 11}

\* m := model{..., itemLimit: 30, visibleRows: 30}
initialItemLimit == 30
initialVisibleRows == 30
\* tableHeight := max(m.height-8, 1)
tableChrome == 8

\* the empty string
NoQuery == <<>>

NoStatus == <<>>

\* an empty table
NoRows == [of |-> <<>>, count |-> 0]

NewSearchModel ==
    [value |-> NoQuery, searchQuery |-> NoQuery, statusMessage |-> NoStatus,
     siUnit |-> FALSE, itemLimit |-> initialItemLimit,
     visibleRows |-> initialVisibleRows, lastItemLimit |-> 0,
     lastQuery |-> NoQuery, rows |-> NoRows, cursor |-> 0]

NoSearch == [type |-> "none"]

NoSearchLog == [msg |-> NoMsg, issued |-> {}, lastIssued |-> NoSearch]

\* the command runSearch returns: it runs plocate -l limit query off the
\* update loop and delivers a searchResultsMsg
runSearch(query, limit, siUnit) ==
    [type |-> "runSearch", query |-> query, limit |-> limit, siUnit |-> siUnit]

\* tea.ExecProcess(updatedb, ...): delivers an updateDBMsg
runUpdatedb == [type |-> "updatedb"]

\* what plocate did: failed with text on stderr, failed without or found
\* nothing, or printed as many paths as the limit allows
SearchOutcomes == {"stderr", "nothing", "found"}

rowsOf(cmd, outcome) ==
    IF outcome = "found" THEN [of |-> cmd, count |-> cmd.limit] ELSE NoRows

\* the searchResultsMsg runSearch's closure returns
searchResultsMsg(cmd, outcome) ==
    [type |-> "searchResultsMsg", query |-> cmd.query, limit |-> cmd.limit,
     err |-> (outcome = "stderr"), rows |-> rowsOf(cmd, outcome)]

updateDBMsg(err) == [type |-> "updateDBMsg", err |-> err]

searchKeyMsg(key) == [type |-> "KeyMsg", key |-> key]

searchSizeMsg(h) == [type |-> "WindowSizeMsg", Height |-> h]

Max(a, b) == IF a > b THEN a ELSE b

Min(a, b) == IF a < b THEN a ELSE b

\* table.SetRows / SetCursor / MoveDown keep the cursor on a row (0 when empty)
clampCursor(c, rows) == Max(Min(c, rows.count - 1), 0)

\* changed: a result is applied whatever query it was computed for
resultIsCurrent_always(m, msg) == TRUE

\* if msg.query == m.searchQuery
resultIsCurrent(m, msg) == msg.query = m.searchQuery

\* case searchResultsMsg
applyResults(m, msg) ==
    IF resultIsCurrent(m, msg)
    THEN IF msg.err
         THEN [m EXCEPT !.statusMessage = <<"error", msg.query>>]
         ELSE [m EXCEPT !.rows = msg.rows,
                        !.cursor = clampCursor(m.cursor, msg.rows),
                        !.statusMessage = <<"Limit results", msg.rows.count>>]
    ELSE m

\* case updateDBMsg
applyUpdateDB(m, msg) ==
    [m EXCEPT !.statusMessage = IF msg.err THEN <<"Failed to update DB">>
                                ELSE <<"Updated DB!">>]

\* case tea.WindowSizeMsg: m.visibleRows = max(m.height-8, 1)
applySize(m, msg) == [m EXCEPT !.visibleRows = Max(msg.Height - tableChrome, 1)]

\* case "ctrl+s"
applyCtrlS(m) == [m EXCEPT !.siUnit = ~m.siUnit, !.lastQuery = NoQuery]

\* case "alt+ctrl+h"
applyClear(m) ==
    [m EXCEPT !.value = NoQuery, !.searchQuery = NoQuery, !.rows = NoRows,
              !.cursor = 0]

\* the search is issued: non-empty query, and the limit or the query is not
\* the one remembered
mustSearch(m) ==
    /\ m.searchQuery # NoQuery
    /\ (m.itemLimit # m.lastItemLimit \/ m.searchQuery # m.lastQuery)

\* Update after the switch: the text input takes the message (its value
\* becomes newValue), the limit is adjusted, a search may be issued, and the
\* table takes the message (its cursor moves by move rows)
afterSwitch(m, newValue, move) ==
    LET m1 == [m EXCEPT !.value = newValue, !.searchQuery = newValue]
        m2 == IF m1.cursor = m1.itemLimit - 1
              THEN [m1 EXCEPT !.itemLimit = m1.cursor + m1.visibleRows]
              ELSE m1
        m3 == IF m2.searchQuery # m2.lastQuery
              THEN [m2 EXCEPT !.itemLimit = m2.visibleRows, !.cursor = 0]
              ELSE m2
        m4 == IF mustSearch(m3)
              THEN [m3 EXCEPT !.lastQuery = m3.searchQuery,
                              !.lastItemLimit = m3.itemLimit]
              ELSE m3
    IN  [m |-> [m4 EXCEPT !.cursor = clampCursor(m4.cursor + move, m4.rows)],
         cmds |-> IF mustSearch(m3)
                  THEN {runSearch(m3.searchQuery, m3.itemLimit, m3.siUnit)}
                  ELSE {}]

----------------------------------------------------------------------------
(* Initial state: main() builds the container; no message delivered yet *)

InitialProportions ==
    { <<FromInt(1)>>,
      <<Rat(1, 2), Rat(1, 2)>>,
      <<FromInt(1), FromInt(3)>>,
      <<Rat(33, 100), Rat(33, 100), Rat(34, 100)>>,
      <<FromInt(1), FromInt(1), FromInt(8)>> }

N == Len(proportions)

\* the numbers of children a caller may pass
ChildCounts == {1, 2, 3}

\* the state after NewResizableContainer(children, initialProportions) with
\* nChildren list components as children
Construct(nChildren, initialProportions) ==
    /\ args = [children |-> nChildren, initialProportions |-> initialProportions]
    /\ panicked = lengthsDiffer(nChildren, initialProportions)
    /\ IF lengthsDiffer(nChildren, initialProportions)
       THEN /\ proportions = <<>>
            /\ children = <<>>
       ELSE /\ proportions = NewResizableContainer(initialProportions)
            /\ children = [i \in 1..nChildren |-> [width |-> 0, height |-> 8]]
    /\ initialized = FALSE
    /\ width = 0
    /\ height = 0
    /\ state = DragStateIdle
    /\ dragHandleID = NoHandle
    /\ lastX = 0
    /\ marked = {}
    /\ rendered = NoRender
    /\ zoneEnabled = TRUE
    /\ lastMsg = NoMsg
    /\ prevMsg = NoMsg
    /\ inZone = {}
    /\ report = NoReport
    /\ forwarded = <<>>
    /\ session = NoSession
    /\ steps = 0
    /\ search = NewSearchModel
    /\ pending = {}
    /\ searchLog = NoSearchLog

\* main() passes as many proportions as children
Init == \E ip \in InitialProportions : Construct(Len(ip), ip)

\* any caller: the two lengths are independent
InitNew == \E n \in ChildCounts, ip \in InitialProportions : Construct(n, ip)

----------------------------------------------------------------------------
(* Update: one action per message type *)

\* changed: the children are told the height stored before this message
UpdateWindowSize_staleHeight(w, h) ==
    /\ steps < MaxSteps
    /\ ~panicked
    /\ initialized' = TRUE
    /\ width' = w
    /\ height' = h
    /\ forwarded' = childMsgs(w, height, proportions)
    /\ children' = updateChildren(children, forwarded')
    /\ lastMsg' = WindowSizeMsg(w, h)
    /\ prevMsg' = lastMsg
    /\ inZone' = {}
    /\ report' = NoReport
    /\ steps' = steps + 1
    /\ rendered' = NoRender
    /\ UNCHANGED <<search, pending, searchLog, args, panicked, proportions, state, dragHandleID, lastX, marked,
                   zoneEnabled, session>>

\* case tea.WindowSizeMsg; (w, h) is the size model.propagate hands to the
\* container, and model.Update has stored the terminal size (nonzero)
\* changed: a resize ends the drag session
UpdateWindowSize_endsDrag(w, h) ==
    /\ steps < MaxSteps
    /\ ~panicked
    /\ initialized' = TRUE
    /\ width' = w
    /\ height' = h
    /\ forwarded' = childMsgs(w, h, proportions)
    /\ children' = updateChildren(children, forwarded')
    /\ lastMsg' = WindowSizeMsg(w, h)
    /\ prevMsg' = lastMsg
    /\ inZone' = {}
    /\ report' = NoReport
    /\ steps' = steps + 1
    /\ rendered' = NoRender
    /\ state' = DragStateIdle
    /\ dragHandleID' = NoHandle
    /\ lastX' = 0
    /\ UNCHANGED <<search, pending, searchLog, args, panicked, proportions, marked, zoneEnabled, session>>

UpdateWindowSize(w, h) ==
    /\ steps < MaxSteps
    /\ ~panicked
    /\ initialized' = TRUE
    /\ width' = w
    /\ height' = h
    /\ forwarded' = childMsgs(w, h, proportions)
    /\ children' = updateChildren(children, forwarded')
    /\ lastMsg' = WindowSizeMsg(w, h)
    /\ prevMsg' = lastMsg
    /\ inZone' = {}
    /\ report' = NoReport
    /\ steps' = steps + 1
    /\ rendered' = NoRender
    /\ UNCHANGED <<search, pending, searchLog, args, panicked, proportions, state, dragHandleID, lastX, marked,
                   zoneEnabled, session>>

\* the session history after HandleMouseEvent returned res for msg
sessionAfter(h, msg, res) ==
    IF ~res.handled THEN h
    ELSE CASE msg.Action = "press" -> [pressX |-> msg.X, sumDelta |-> 0]
           [] msg.Action = "motion" -> [h EXCEPT !.sumDelta = h.sumDelta + res.deltaX]
           [] OTHER -> NoSession

\* changed: a mouse message the drag system did not handle is not propagated
UpdateMouse_dropsUnhandled(a, b, x, inBounds) ==
    LET msg == MouseMsg(a, b, x)
        d == [state |-> state, dragHandleID |-> dragHandleID, lastX |-> lastX]
        res == HandleMouseEvent(d, msg, getHandleIDs(N), inBounds)
        newProps == updateProportionsFromDrag(proportions, width, res.handleID, res.deltaX)
    IN  /\ steps < MaxSteps
        /\ initialized
        /\ state' = res.d.state
        /\ dragHandleID' = res.d.dragHandleID
        /\ lastX' = res.d.lastX
        /\ report' = [handled |-> res.handled, handleID |-> res.handleID,
                      deltaX |-> res.deltaX]
        /\ IF res.handled /\ res.deltaX # 0
           THEN /\ proportions' = newProps
                /\ forwarded' = childMsgs(width, height, newProps)
           ELSE /\ proportions' = proportions
                /\ forwarded' = <<>>
        /\ children' = IF forwarded' = <<>> THEN children
                       ELSE updateChildren(children, forwarded')
        /\ lastMsg' = msg
        /\ prevMsg' = lastMsg
        /\ inZone' = inBounds
        /\ session' = sessionAfter(session, msg, res)
        /\ steps' = steps + 1
        /\ rendered' = NoRender
        /\ UNCHANGED <<search, pending, searchLog, args, panicked, initialized, width, height, marked,
                       zoneEnabled>>

\* changed: every handled mouse event is applied as a drag, delta 0 included
dragApplied_anyHandled(res) == res.handled

\* if handled && deltaX != 0
dragApplied(res) == res.handled /\ res.deltaX # 0

\* changed: the panes are told the sizes of the proportions before the drag
relayoutAfterDrag_oldProportions(w, h, oldProps, newProps) == childMsgs(w, h, oldProps)

\* "Recalculate child sizes after proportion change": the messages sent to
\* the children after updateProportionsFromDrag
relayoutAfterDrag(w, h, oldProps, newProps) == childMsgs(w, h, newProps)

\* changed: a mouse message is propagated whether handled or not
propagateMouse_always(res, msg, n) == propagate(n, msg)

\* "If not handled by drag system, propagate to children"
propagateMouse(res, msg, n) == IF ~res.handled THEN propagate(n, msg) ELSE <<>>

\* case tea.MouseMsg
UpdateMouse(a, b, x, inBounds) ==
    LET msg == MouseMsg(a, b, x)
        d == [state |-> state, dragHandleID |-> dragHandleID, lastX |-> lastX]
        res == HandleMouseEvent(d, msg, getHandleIDs(N), inBounds)
        newProps == updateProportionsFromDrag(proportions, width, res.handleID, res.deltaX)
    IN  /\ steps < MaxSteps
        /\ initialized
        /\ state' = res.d.state
        /\ dragHandleID' = res.d.dragHandleID
        /\ lastX' = res.d.lastX
        /\ report' = [handled |-> res.handled, handleID |-> res.handleID,
                      deltaX |-> res.deltaX]
        /\ IF dragApplied(res)
           THEN /\ proportions' = newProps
                /\ forwarded' = relayoutAfterDrag(width, height, proportions, newProps)
           ELSE /\ proportions' = proportions
                /\ forwarded' = propagateMouse(res, msg, N)
        /\ children' = IF forwarded' = <<>> THEN children
                       ELSE updateChildren(children, forwarded')
        /\ lastMsg' = msg
        /\ prevMsg' = lastMsg
        /\ inZone' = inBounds
        /\ session' = sessionAfter(session, msg, res)
        /\ steps' = steps + 1
        /\ rendered' = NoRender
        /\ UNCHANGED <<search, pending, searchLog, args, panicked, initialized, width, height, marked,
                       zoneEnabled>>

\* the zone registry's answer: the marked handles whose region holds the
\* cursor of a press (HandleMouseEvent consults it only for the left button)
Mouse ==
    \E e \in MouseEvents, x \in Xs :
        \E inBounds \in SUBSET (IF zoneEnabled THEN marked ELSE {}) :
            /\ e[1] # "press" => inBounds = {}
            /\ UpdateMouse(e[1], e[2], x, inBounds)

WindowSize == \E sz \in Sizes : UpdateWindowSize(sz[1], sz[2])

\* messages other than WindowSizeMsg are dropped by model.Update until the
\* first size has arrived; default: any other message goes to every child
UpdateOther ==
    /\ steps < MaxSteps
    /\ initialized
    /\ forwarded' = propagate(N, KeyMsg)
    /\ children' = updateChildren(children, forwarded')
    /\ lastMsg' = KeyMsg
    /\ prevMsg' = lastMsg
    /\ inZone' = {}
    /\ report' = NoReport
    /\ steps' = steps + 1
    /\ rendered' = NoRender
    /\ UNCHANGED <<search, pending, searchLog, args, panicked, initialized, proportions, width, height, state,
                   dragHandleID, lastX, marked, zoneEnabled, session>>

\* changed: every handle is drawn active while a drag is in progress
renderHandle_anyHandleActive(handleID) ==
    [kind |-> "handle", id |-> handleID, active |-> IsDragging]

\* renderHandle: handleActiveStyle iff this handle is being dragged; the
\* rendered bar is passed to zone.Mark under the handle's id
renderHandle(handleID) ==
    [kind |-> "handle", id |-> handleID,
     active |-> (IsDragging /\ dragHandleID = handleID)]

\* the child's view at Width(childWidth).Height(r.height)
renderChild(i) ==
    [kind |-> "pane", index |-> i - 1,
     width |-> childWidth(width, proportions, i), height |-> height]

\* ResizableContainer.View: parts = child 0, handle 0, child 1, ..., child N-1
viewParts ==
    [k \in 1..(2 * N - 1) |->
        IF k % 2 = 1 THEN renderChild((k + 1) \div 2)
        ELSE renderHandle(getHandleID(k \div 2 - 1))]

\* the ids zone.Mark was called with while rendering parts
markedBy(parts) == {parts[k].id : k \in {j \in DOMAIN parts : parts[j].kind = "handle"}}

\* model.View renders nothing before the first size; then renderHandle marks
\* every handle id in the registry
View ==
    /\ initialized
    /\ N # 0
    /\ rendered' = viewParts
    /\ marked' = IF zoneEnabled THEN markedBy(viewParts) ELSE marked
    /\ UNCHANGED <<search, pending, searchLog, args, panicked, initialized, children, proportions, width,
                   height, state, dragHandleID,
                   lastX, zoneEnabled, lastMsg, prevMsg, inZone, report,
                   forwarded, session, steps>>

\* model.Update, "ctrl+e": zone.SetEnabled(!zone.Enabled()), not propagated
CtrlE ==
    /\ initialized
    /\ zoneEnabled' = ~zoneEnabled
    /\ rendered' = NoRender
    /\ UNCHANGED <<search, pending, searchLog, args, panicked, initialized, children, proportions, width,
                   height, state, dragHandleID,
                   lastX, marked, lastMsg, prevMsg, inZone, report, forwarded,
                   session, steps>>

Next == WindowSize \/ Mouse \/ UpdateOther \/ View \/ CtrlE

Spec == Init /\ [][Next]_vars

\* the handle ids a caller of updateProportionsFromDrag may pass: the
\* container's own, the empty string, the first index past the last handle,
\* and a negative index
CallHandleIDs(n) ==
    {getHandleID(i) : i \in 0..(n - 2)} \cup {NoHandle, getHandleID(n - 1), getHandleID(-1)}

CallDeltas == {-40, -10, 10, 40}

CallMsg(handleID, deltaX) ==
    [type |-> "updateProportionsFromDrag", handleID |-> handleID, deltaX |-> deltaX]

\* r.updateProportionsFromDrag(handleID, deltaX) called on its own
CallDrag ==
    /\ steps < MaxSteps
    /\ ~panicked
    /\ \E handleID \in CallHandleIDs(N), deltaX \in CallDeltas :
          /\ proportions' = updateProportionsFromDrag(proportions, width, handleID, deltaX)
          /\ lastMsg' = CallMsg(handleID, deltaX)
    /\ prevMsg' = lastMsg
    /\ report' = NoReport
    /\ forwarded' = <<>>
    /\ inZone' = {}
    /\ steps' = steps + 1
    /\ rendered' = NoRender
    /\ UNCHANGED <<search, pending, searchLog, args, panicked, initialized, children, width, height, state,
                   dragHandleID, lastX, marked, zoneEnabled, session>>

NextCall == WindowSize \/ CallDrag

\* updateProportionsFromDrag called with any handle id and delta on a container
\* of any size
SpecCall == Init /\ [][NextCall]_vars

BackMsg(handleID, deltaX, before, between) ==
    [type |-> "dragThenBack", handleID |-> handleID, deltaX |-> deltaX,
     before |-> before, between |-> between]

\* r.updateProportionsFromDrag(handleID, deltaX) followed by
\* r.updateProportionsFromDrag(handleID, -deltaX) on a handle of the container
CallDragBack ==
    /\ steps < MaxSteps
    /\ ~panicked
    /\ \E i \in 0..(N - 2), deltaX \in CallDeltas :
          LET between == updateProportionsFromDrag(proportions, width,
                                                   getHandleID(i), deltaX)
          IN  /\ proportions' = updateProportionsFromDrag(between, width,
                                                          getHandleID(i), -deltaX)
              /\ lastMsg' = BackMsg(getHandleID(i), deltaX, proportions, between)
    /\ prevMsg' = lastMsg
    /\ report' = NoReport
    /\ forwarded' = <<>>
    /\ inZone' = {}
    /\ steps' = steps + 1
    /\ rendered' = NoRender
    /\ UNCHANGED <<search, pending, searchLog, args, panicked, initialized, children, width, height, state,
                   dragHandleID, lastX, marked, zoneEnabled, session>>

NextRound == WindowSize \/ CallDrag \/ CallDragBack

\* updateProportionsFromDrag called once, or forth and back, at any size
SpecRound == Init /\ [][NextRound]_vars

containerVars ==
    <<rendered, args, panicked, initialized, children, proportions, width, height,
      state, dragHandleID, lastX, marked, zoneEnabled, lastMsg, prevMsg, inZone,
      report, forwarded, session>>

\* one call of the file-search model.Update that reaches its end: m is the
\* model after the switch, done the commands whose message this is
SearchStep(msg, m, newValue, move, done) ==
    LET r == afterSwitch(m, newValue, move)
    IN  /\ steps < MaxSearchSteps
        /\ search' = r.m
        /\ pending' = (pending \ done) \cup r.cmds
        /\ searchLog' = [msg |-> msg, issued |-> r.cmds,
                         lastIssued |-> IF r.cmds = {} THEN searchLog.lastIssued
                                        ELSE CHOOSE c \in r.cmds : TRUE]
        /\ steps' = steps + 1
        /\ UNCHANGED containerVars

SearchWindowSize ==
    \E h \in SearchHeights :
        SearchStep(searchSizeMsg(h), applySize(search, searchSizeMsg(h)),
                   search.value, 0, {})

\* a character key: the text input appends it
SearchKeyRune ==
    \E c \in SearchChars :
        /\ Len(search.value) < MaxQueryLen
        /\ SearchStep(searchKeyMsg(c), search, Append(search.value, c), 0, {})

\* backspace: the text input drops its last character
SearchKeyBackspace ==
    /\ search.value # NoQuery
    /\ SearchStep(searchKeyMsg("backspace"), search,
                  SubSeq(search.value, 1, Len(search.value) - 1), 0, {})

SearchKeyCtrlS ==
    SearchStep(searchKeyMsg("ctrl+s"), applyCtrlS(search), search.value, 0, {})

SearchKeyClear ==
    SearchStep(searchKeyMsg("alt+ctrl+h"), applyClear(search), NoQuery, 0, {})

\* down: the table moves its cursor one row
SearchKeyDown ==
    SearchStep(searchKeyMsg("down"), search, search.value, 1, {})

\* case "ctrl+u": return m, tea.ExecProcess(...)
SearchKeyCtrlU ==
    /\ steps < MaxSearchSteps
    /\ pending' = pending \cup {runUpdatedb}
    /\ searchLog' = [searchLog EXCEPT !.msg = searchKeyMsg("ctrl+u"), !.issued = {}]
    /\ steps' = steps + 1
    /\ UNCHANGED search
    /\ UNCHANGED containerVars

SearchUpdateDB ==
    \E err \in BOOLEAN :
        /\ runUpdatedb \in pending
        /\ SearchStep(updateDBMsg(err), applyUpdateDB(search, updateDBMsg(err)),
                      search.value, 0, {runUpdatedb})

\* a search command finishes and its message is delivered, in any order
SearchResults ==
    \E cmd \in pending, outcome \in SearchOutcomes :
        /\ cmd.type = "runSearch"
        /\ SearchStep(searchResultsMsg(cmd, outcome),
                      applyResults(search, searchResultsMsg(cmd, outcome)),
                      search.value, 0, {cmd})

NextSearch ==
    \/ SearchWindowSize
    \/ SearchKeyRune
    \/ SearchKeyBackspace
    \/ SearchKeyCtrlS
    \/ SearchKeyClear
    \/ SearchKeyDown
    \/ SearchKeyCtrlU
    \/ SearchUpdateDB
    \/ SearchResults

\* the file-search program runs on its own; the container is not part of it
InitSearch == Construct(2, <<Rat(1, 2), Rat(1, 2)>>)

SpecSearch == InitSearch /\ [][NextSearch]_vars

\* the same program built by any caller of NewResizableContainer
SpecNew == InitNew /\ [][Next]_vars

----------------------------------------------------------------------------
(* Vocabulary of the properties *)

\* the last step delivered a mouse message that the controller reported as a
\* drag delta, so Update called updateProportionsFromDrag
DragDelivered ==
    /\ lastMsg.type = "MouseMsg"
    /\ report.handled
    /\ report.deltaX # 0

\* ... and the redistribution was not skipped
DragMutates == DragDelivered /\ availableWidth(width, N) > 0

\* a step that delivers a drag delta (View and ctrl+e deliver nothing to Update)
DragStep == steps' # steps /\ DragDelivered'

\* 1-based position of the left pane of the handle of the last report
LeftOf(r) == findHandleIndex(N, r.handleID) + 1

computedWidths == [i \in 1..N |-> childWidth(width, proportions, i)]

InRange(x, lo, hi) == RLeq(lo, x) /\ RLeq(x, hi)

----------------------------------------------------------------------------
(* C1: after any sequence of resizes and drag deltas, from positive initial
   proportions, the proportions sum to exactly 1. *)
C1_SumIsOne == Sum(proportions) = One

\* a drag has redistributed after a resize, and the left pane sits on a clamp
C1_Witness ==
    /\ DragMutates
    /\ proportions[LeftOf(report)] = minProportionOf(availableWidth(width, N))

(* C2: in every reachable state every entry of the proportion vector
   is >= 0. *)
C2_NonNegative == \A i \in 1..N : RLeq(Zero, proportions[i])

(* C3 as stated: after every drag redistribution that mutates the
   proportions, every pane's proportion is at most maxProportion and at least
   minWidthChars / availableWidth. *)
C3_AllWithinBounds ==
    DragMutates =>
        \A i \in 1..N :
            InRange(proportions[i], minProportionOf(availableWidth(width, N)),
                    maxProportion)

(* C3 amended: after a drag redistribution on handle h in which the combined
   proportion S of panes h and h+1 satisfies 2*minProp <= S <= 2*maxProportion,
   both panes of the pair lie in [minProp, maxProportion]. *)
C3_PairWithinBoundsWhenFeasible ==
    [][(DragStep /\ DragMutates') =>
        LET l == LeftOf(report')
            S == RAdd(proportions[l], proportions[l + 1])
            minP == minProportionOf(availableWidth(width, N))
            two == FromInt(2)
        IN  (RLeq(RMul(two, minP), S) /\ RLeq(S, RMul(two, maxProportion))) =>
                /\ InRange(proportions'[l], minP, maxProportion)
                /\ InRange(proportions'[l + 1], minP, maxProportion)]_vars

\* a feasible drag whose right pane was clamped up to the minimum
C3_Witness ==
    /\ DragMutates
    /\ width = 100
    /\ report.deltaX > 0
    /\ proportions[LeftOf(report) + 1] = minProportionOf(availableWidth(width, N))

(* C4: in every reachable state the computed pane widths
   int(availableWidth * proportion[i]) plus (N-1)*handleWidth sum to at most
   the stored container width, also when availableWidth <= 0. *)
C4_WidthsFit ==
    IntSumTo(computedWidths, N) + (N - 1) * handleWidth <= width

(* C5: delivering the same WindowSizeMsg twice in a row forwards the same
   sizes to the panes both times and leaves the container in the same state
   after the second call as after the first. *)
C5_ResizeIdempotent ==
    [][(lastMsg.type = "WindowSizeMsg" /\ lastMsg' = lastMsg /\ steps' # steps) =>
            /\ forwarded' = forwarded
            /\ <<children, proportions, width, height, state, dragHandleID, lastX>>'
                 = <<children, proportions, width, height, state, dragHandleID, lastX>>]_vars

\* the same resize arrived twice, in the middle of a drag session
C5_Witness ==
    /\ lastMsg.type = "WindowSizeMsg"
    /\ prevMsg = lastMsg
    /\ lastMsg.Width = 100
    /\ state = DragStateDragging
    /\ Len(forwarded) = N

(* C6: a drag delta on handle h leaves proportion[j] unchanged for every
   pane j other than h and h+1. *)
C6_OnlyPairChanges ==
    [][DragStep =>
        \A j \in 1..N :
            j \notin {LeftOf(report'), LeftOf(report') + 1} =>
                proportions'[j] = proportions[j]]_vars

\* three panes, handle 0 was dragged and moved, the third pane kept its share
C6_Witness ==
    /\ N = 3
    /\ DragMutates
    /\ report.handleID = getHandleID(0)
    /\ proportions[1] # Rat(33, 100)
    /\ proportions[3] = Rat(34, 100)

(* C7: when availableWidth <= 0, a drag delta on any handle leaves the whole
   proportion vector unchanged. *)
C7_NoOpWithoutWidth ==
    [][(DragStep /\ availableWidth(width, N) <= 0) =>
            proportions' = proportions]_vars

\* a drag delta was delivered while availableWidth was exactly 0
C7_Witness ==
    /\ DragDelivered
    /\ availableWidth(width, N) = 0

(* C8: no pane is ever forwarded a WindowSizeMsg with a negative width, and
   a resize with availableWidth <= 0 forwards no pane sizes at all. *)
C8_NoNegativeWidths ==
    /\ \A i \in DOMAIN forwarded :
          forwarded[i].type = "WindowSizeMsg" => forwarded[i].Width >= 0
    /\ (lastMsg.type = "WindowSizeMsg" /\ availableWidth(width, N) <= 0) =>
          forwarded = <<>>

(* C9: from Idle, a press in no handle region, and every motion that follows
   it, is reported unhandled, leaves the controller Idle and leaves the
   proportions unchanged. *)
C9_MissedPressNeverDrags ==
    [][(/\ state = DragStateIdle
        /\ steps' # steps
        /\ lastMsg'.type = "MouseMsg"
        /\ \/ lastMsg'.Action = "press" /\ inZone' = {}
           \/ lastMsg'.Action = "motion") =>
            /\ state' = DragStateIdle
            /\ ~report'.handled
            /\ proportions' = proportions]_vars

\* handles are marked and hit testing is on, a left press missed them all
\* and a motion followed: still Idle
C9_Witness ==
    /\ marked # {}
    /\ zoneEnabled
    /\ prevMsg.type = "MouseMsg" /\ prevMsg.Action = "press" /\ prevMsg.Button = "left"
    /\ lastMsg.type = "MouseMsg" /\ lastMsg.Action = "motion"
    /\ lastMsg.X # prevMsg.X
    /\ ~IsDragging
    /\ ~report.handled

(* C10: 2 panes at [1/2, 1/2], width 100: a drag of handle 0 by +10 yields
   [1/2 + 10/99, 1/2 - 10/99] with no clamp applied, and the panes are then
   forwarded widths 59 and 39. *)
C10_UnclampedScenario ==
    [][(/\ proportions = <<Rat(1, 2), Rat(1, 2)>>
        /\ width = 100
        /\ DragStep
        /\ report'.deltaX = 10) =>
            /\ proportions' = <<RAdd(Rat(1, 2), Rat(10, 99)), RSub(Rat(1, 2), Rat(10, 99))>>
            /\ redistribute(Rat(1, 2), Rat(1, 2), 10, 99) =
                   [left |-> RAdd(Rat(1, 2), Rat(10, 99)),
                    right |-> RSub(Rat(1, 2), Rat(10, 99))]
            /\ Len(forwarded') = 2
            /\ forwarded'[1] = WindowSizeMsg(59, height)
            /\ forwarded'[2] = WindowSizeMsg(39, height)]_vars

\* the scenario happened: the first delta of a session, +10, at width 100
C10_Witness ==
    /\ N = 2
    /\ width = 100
    /\ DragDelivered
    /\ report.deltaX = 10
    /\ prevMsg.type = "MouseMsg" /\ prevMsg.Action = "press"
    /\ proportions = <<Rat(119, 198), Rat(79, 198)>>
    /\ children[1].width = 59
    /\ children[2].width = 39

(* C11: 2 panes at [1/2, 1/2], width 100: a drag of handle 0 by -40 clamps
   the left proportion to exactly 35/99 and the right pane takes the
   remainder, 64/99. *)
C11_ClampedScenario ==
    [][(/\ proportions = <<Rat(1, 2), Rat(1, 2)>>
        /\ width = 100
        /\ DragStep
        /\ report'.deltaX = -40) =>
            /\ RLess(RSub(Rat(1, 2), Rat(40, 99)), Rat(35, 99))
            /\ proportions' = <<Rat(35, 99), Rat(64, 99)>>]_vars

\* the scenario happened: press at X = 50, motion to X = 10, at width 100
C11_Witness ==
    /\ N = 2
    /\ width = 100
    /\ DragDelivered
    /\ report.deltaX = -40
    /\ prevMsg.type = "MouseMsg" /\ prevMsg.Action = "press" /\ prevMsg.X = 50
    /\ proportions = <<Rat(35, 99), Rat(64, 99)>>

(* C12: once hit testing is disabled while a drag session is active, and for
   as long as it stays disabled, no mouse event, motion included, changes the
   proportion vector. *)
C12_DisabledMouseIsInert ==
    [][(/\ ~zoneEnabled
        /\ steps' # steps
        /\ lastMsg'.type = "MouseMsg") =>
            proportions' = proportions]_vars

(* C13: in Idle a press starts a session if and only if it is a left-button
   press whose cursor is in some handle's region; the session then records
   that handle's id and lastX = the press's X and the report is (handled,
   that id, 0); a press in no handle region never starts a session. *)
C13_PressStartsSession ==
    [][(/\ state = DragStateIdle
        /\ steps' # steps
        /\ lastMsg'.type = "MouseMsg"
        /\ lastMsg'.Action = "press") =>
            /\ (state' = DragStateDragging) <=>
                   (lastMsg'.Button = "left" /\ inZone' # {})
            /\ (state' = DragStateDragging) =>
                   /\ dragHandleID' \in inZone'
                   /\ lastX' = lastMsg'.X
                   /\ report' = [handled |-> TRUE, handleID |-> dragHandleID',
                                 deltaX |-> 0]
            /\ (state' = DragStateIdle) =>
                   /\ ~report'.handled
                   /\ dragHandleID' = dragHandleID
                   /\ lastX' = lastX]_vars

\* a left press on the second handle of three, at a nonzero X, started a session
C13_Witness ==
    /\ N = 3
    /\ lastMsg.type = "MouseMsg" /\ lastMsg.Action = "press" /\ lastMsg.Button = "left"
    /\ inZone = {getHandleID(1)}
    /\ state = DragStateDragging
    /\ dragHandleID = getHandleID(1)
    /\ lastX = lastMsg.X
    /\ lastX # 0
    /\ report = [handled |-> TRUE, handleID |-> getHandleID(1), deltaX |-> 0]

(* C14: in Dragging every motion is reported as (handled, the session's
   handle id, event X - lastX), sets lastX to the event's X and stays in
   Dragging on the same handle; so the deltas reported over a session sum to
   the X of the latest motion minus the X of the press that started it. *)
C14_MotionReportsDelta ==
    [][(/\ state = DragStateDragging
        /\ steps' # steps
        /\ lastMsg'.type = "MouseMsg"
        /\ lastMsg'.Action = "motion") =>
            /\ report' = [handled |-> TRUE, handleID |-> dragHandleID,
                          deltaX |-> lastMsg'.X - lastX]
            /\ lastX' = lastMsg'.X
            /\ state' = DragStateDragging
            /\ dragHandleID' = dragHandleID
            /\ session'.sumDelta = lastMsg'.X - session'.pressX]_vars

\* two motions in one session, both with a nonzero delta, that do not cancel
C14_Witness ==
    /\ state = DragStateDragging
    /\ prevMsg.type = "MouseMsg" /\ prevMsg.Action = "motion"
    /\ lastMsg.type = "MouseMsg" /\ lastMsg.Action = "motion"
    /\ report.handled
    /\ report.deltaX # 0
    /\ session.sumDelta # report.deltaX
    /\ session.sumDelta # 0
    /\ session.sumDelta = lastX - session.pressX

(* C15: in Dragging a release of the left button is reported as (handled,
   the id of the handle that was being dragged, 0) and clears the session:
   afterwards the state is Idle, the recorded handle id is empty and lastX
   is 0. *)
C15_ReleaseEndsSession ==
    [][(/\ state = DragStateDragging
        /\ steps' # steps
        /\ lastMsg'.type = "MouseMsg"
        /\ lastMsg'.Action = "release"
        /\ lastMsg'.Button = "left") =>
            /\ report' = [handled |-> TRUE, handleID |-> dragHandleID, deltaX |-> 0]
            /\ state' = DragStateIdle
            /\ ~IsDragging'
            /\ dragHandleID' = NoHandle
            /\ lastX' = 0]_vars

\* a session on the second handle, moved to a nonzero X, was just released
C15_Witness ==
    /\ lastMsg.type = "MouseMsg" /\ lastMsg.Action = "release" /\ lastMsg.Button = "left"
    /\ prevMsg.type = "MouseMsg" /\ prevMsg.Action = "motion" /\ prevMsg.X # 0
    /\ report = [handled |-> TRUE, handleID |-> getHandleID(1), deltaX |-> 0]
    /\ state = DragStateIdle
    /\ dragHandleID = NoHandle
    /\ lastX = 0

(* C16: every mouse event other than a press in Idle, a motion in Dragging
   and a left release in Dragging is reported unhandled and leaves the
   controller's state, handle id and lastX unchanged; in particular a press
   of any button, on or off a handle, while Dragging. *)
C16_OtherMouseEventsIgnored ==
    [][(/\ steps' # steps
        /\ lastMsg'.type = "MouseMsg"
        /\ ~(state = DragStateIdle /\ lastMsg'.Action = "press")
        /\ ~(state = DragStateDragging /\ lastMsg'.Action = "motion")
        /\ ~(/\ state = DragStateDragging
             /\ lastMsg'.Action = "release"
             /\ lastMsg'.Button = "left")) =>
            /\ ~report'.handled
            /\ <<state, dragHandleID, lastX>>' = <<state, dragHandleID, lastX>>]_vars

(* C17 as stated: every event delivered to the container that is neither a
   resize nor a drag delta (a mouse event reported with a nonzero delta) is
   forwarded unmodified to every pane, once each, in pane order; key events
   and mouse presses and releases included. *)
C17_AllButResizeAndDeltaForwarded ==
    (lastMsg.type \in {"MouseMsg", "KeyMsg"} /\ ~DragDelivered) =>
        forwarded = [i \in 1..N |-> lastMsg]

(* C17 amended: every event delivered to the container that is neither a
   resize nor a mouse event the drag controller reports as handled is
   forwarded unmodified to every pane, once each, in pane order; key events
   and unhandled mouse presses, releases and motions included. *)
C17_UnhandledForwardedToAll ==
    (lastMsg.type \in {"MouseMsg", "KeyMsg"} /\ ~report.handled) =>
        /\ Len(forwarded) = N
        /\ \A i \in 1..N : forwarded[i] = lastMsg

\* a left release outside a session went to all three panes
C17_Witness ==
    /\ N = 3
    /\ lastMsg.type = "MouseMsg" /\ lastMsg.Action = "release" /\ lastMsg.Button = "left"
    /\ ~report.handled
    /\ forwarded = <<lastMsg, lastMsg, lastMsg>>

(* C18: constructing a container from lists of different lengths panics and
   yields no container; with equal lengths and positive entries it succeeds,
   proportion[i] = initial[i] / sum(initial), the drag session starts Idle
   and the proportions sum to 1 before first use. *)
C18_Construction ==
    /\ panicked <=> args.children # Len(args.initialProportions)
    /\ panicked => (proportions = <<>> /\ children = <<>> /\ steps = 0)
    /\ (~panicked /\ steps = 0) =>
          /\ Len(proportions) = args.children
          /\ \A i \in 1..args.children :
                proportions[i] =
                    RDiv(args.initialProportions[i], Sum(args.initialProportions))
          /\ state = DragStateIdle
          /\ ~IsDragging
          /\ Sum(proportions) = One

\* three children with two proportions: the constructor panicked
C18_Witness ==
    /\ panicked
    /\ args.children = 3
    /\ Len(args.initialProportions) = 2
    /\ proportions = <<>>

\* the last step called updateProportionsFromDrag with an id of no handle
UnknownHandleCall ==
    /\ lastMsg.type = "updateProportionsFromDrag"
    /\ lastMsg.handleID \notin {getHandleID(i) : i \in 0..(N - 2)}

(* C19: a drag delta addressed to a handle id that is not one of the
   container's N-1 handle ids is ignored: the call leaves every proportion
   unchanged, whatever the delta and the width. *)
C19_UnknownHandleIgnored ==
    [][(steps' # steps /\ UnknownHandleCall') => proportions' = proportions]_vars

\* an unknown id was passed at a width where a known id would have acted
C19_Witness ==
    /\ UnknownHandleCall
    /\ lastMsg.handleID = getHandleID(N - 1)
    /\ availableWidth(width, N) > 0
    /\ lastMsg.deltaX # 0

\* p[h] + p[h+1] for the pair whose left pane is at 1-based position l
pairMass(p, l) == RAdd(p[l], p[l + 1])

(* C20: every drag redistribution conserves the mass of the dragged pair:
   p[h] + p[h+1] is the same after the drag as before it, whichever of the
   four clamps fire. *)
C20_PairMassConserved ==
    [][DragStep =>
          pairMass(proportions', LeftOf(report')) =
              pairMass(proportions, LeftOf(report'))]_vars

\* a drag on the second handle of three panes that ended on the right-max clamp
C20_Witness ==
    /\ N = 3
    /\ DragMutates
    /\ report.handleID = getHandleID(1)
    /\ proportions[3] = maxProportion
    /\ proportions[2] # Rat(33, 100)

(* C21: the proportion vector changes only in a step that processes a mouse
   event the drag controller reports as handled with a nonzero delta; every
   other step (resize, press, release, zero-delta motion, unhandled mouse
   event, key, render, ctrl+e) leaves every proportion unchanged. *)
C21_OnlyDragChangesProportions ==
    [][proportions' # proportions => DragStep]_vars

\* a drag delta has changed the proportions the container was built with
C21_Witness ==
    /\ DragMutates
    /\ lastMsg.Action = "motion"
    /\ proportions # NewResizableContainer(args.initialProportions)
    /\ steps = 3

\* the message of the last step is a release of the primary button
PrimaryRelease(msg) ==
    msg.type = "MouseMsg" /\ msg.Action = "release" /\ msg.Button = "left"

(* C22: a drag session ends only by a primary-button release: every step
   from IsDragging() = true to IsDragging() = false processes a release
   event with the primary button; no motion, press, non-primary release,
   resize, key event or render ends the session. *)
C22_EndsOnlyByPrimaryRelease ==
    [][(IsDragging /\ ~IsDragging') =>
          (steps' # steps /\ PrimaryRelease(lastMsg'))]_vars

\* a session that survived a resize was ended by the primary release
C22_Witness ==
    /\ ~IsDragging
    /\ PrimaryRelease(lastMsg)
    /\ report.handled
    /\ prevMsg.type = "WindowSizeMsg"
    /\ session = NoSession

\* the cursor position the session history ends at: the press X plus every
\* delta reported since
sessionX == session.pressX + session.sumDelta

(* C23: a resize received while a drag session is active recomputes the
   geometry and keeps the session alive: the controller's state, handle id
   and lastX are unchanged by the resize, and the next motion's delta is
   computed against the lastX recorded before the resize. *)
C23_ResizeKeepsSession ==
    [][/\ (steps' # steps /\ IsDragging /\ lastMsg'.type = "WindowSizeMsg") =>
             /\ state' = state
             /\ dragHandleID' = dragHandleID
             /\ lastX' = lastX
             /\ lastX' = sessionX
             /\ width' = lastMsg'.Width
             /\ \A i \in 1..N :
                   children'[i] = [width |-> childWidth(lastMsg'.Width, proportions, i),
                                   height |-> lastMsg'.Height]
       /\ (steps' # steps /\ IsDragging /\ lastMsg.type = "WindowSizeMsg"
             /\ lastMsg'.type = "MouseMsg" /\ lastMsg'.Action = "motion") =>
             /\ report'.handled
             /\ report'.handleID = dragHandleID
             /\ report'.deltaX = lastMsg'.X - sessionX]_vars

\* press, resize, then a motion that reported a nonzero delta
C23_Witness ==
    /\ IsDragging
    /\ lastMsg.type = "MouseMsg" /\ lastMsg.Action = "motion"
    /\ prevMsg.type = "WindowSizeMsg"
    /\ report.handled
    /\ report.deltaX # 0
    /\ report.deltaX = session.sumDelta

\* the size View renders pane i at: Width(childWidth).Height(r.height)
renderedSize(i) == [width |-> childWidth(width, proportions, i), height |-> height]

(* C24: after a drag delta is applied the layout is re-derived as resize
   would with the stored width and height, so in every reachable state after
   the first resize the size each pane was last told equals the size
   computed from the current width, height and proportions (the size View
   renders it at). *)
C24_PanesKnowTheirSize ==
    initialized => (\A i \in 1..N : children[i] = renderedSize(i))

\* a drag has moved the first pane to a width it did not have at this
\* container width before, and the pane was told
C24_Witness ==
    /\ DragMutates
    /\ children[1].width = childWidth(width, proportions, 1)
    /\ children[1].width #
           childWidth(width, NewResizableContainer(args.initialProportions), 1)

\* the handle parts of a View output that are drawn with handleActiveStyle
activeHandles(parts) ==
    {k \in DOMAIN parts : parts[k].kind = "handle" /\ parts[k].active}

(* C25: every render of a container with N >= 1 panes marks all N-1 handle
   ids, interleaved left to right as pane 0, handle 0, pane 1, ..., pane N-1,
   and renders handle i with active styling if and only if the controller is
   Dragging and its recorded handle id is handle i; hence at most one handle
   is active in any render and none is active when Idle. *)
C25_RenderMarksAllHandles ==
    rendered # NoRender =>
        /\ Len(rendered) = 2 * N - 1
        /\ \A i \in 0..(N - 1) :
              /\ rendered[2 * i + 1].kind = "pane"
              /\ rendered[2 * i + 1].index = i
        /\ \A i \in 0..(N - 2) :
              /\ rendered[2 * i + 2].kind = "handle"
              /\ rendered[2 * i + 2].id = getHandleID(i)
              /\ rendered[2 * i + 2].active <=>
                    (state = DragStateDragging /\ dragHandleID = getHandleID(i))
        /\ markedBy(rendered) = {getHandleID(i) : i \in 0..(N - 2)}
        /\ zoneEnabled => marked = {getHandleID(i) : i \in 0..(N - 2)}
        /\ Cardinality(activeHandles(rendered)) <= 1
        /\ state = DragStateIdle => activeHandles(rendered) = {}

\* three panes rendered during a drag of the second handle
C25_Witness ==
    /\ N = 3
    /\ Len(rendered) = 5
    /\ state = DragStateDragging
    /\ dragHandleID = getHandleID(1)
    /\ rendered[4].active
    /\ ~rendered[2].active

(* C26: after every drag redistribution with availableWidth > 0 on a known
   handle h, the right pane of the pair satisfies
   proportion[h+1] <= maxProportion, for every width, pane count and delta,
   including geometries where the min and max constraints cannot all be met
   (the right-max clamp is applied last). *)
C26_RightPaneAtMostMax ==
    [][(DragStep /\ availableWidth(width, N) > 0) =>
          RLeq(proportions'[LeftOf(report') + 1], maxProportion)]_vars

\* two panes at width 41, where the minimum 35/40 exceeds maxProportion: the
\* right pane ends on the right-max clamp and the left below the minimum
C26_Witness ==
    /\ N = 2
    /\ width = 41
    /\ DragMutates
    /\ proportions[2] = maxProportion
    /\ RLess(proportions[1], minProportionOf(availableWidth(width, N)))

\* the messages of the last step's child.Update calls that are mouse messages
forwardedMouse == {i \in DOMAIN forwarded : forwarded[i].type = "MouseMsg"}

(* C27: a mouse event that the drag controller reports as handled (the press
   that starts a session, every motion during a session, the primary release
   that ends it) is forwarded to no pane; a mouse event reported unhandled is
   forwarded to every pane in order. *)
C27_HandledMouseReachesNoPane ==
    lastMsg.type = "MouseMsg" =>
        IF report.handled
        THEN forwardedMouse = {}
        ELSE forwarded = propagate(N, lastMsg)

\* the release that ended a session on three panes reached none of them
C27_Witness ==
    /\ N = 3
    /\ PrimaryRelease(lastMsg)
    /\ report.handled
    /\ forwarded = <<>>
    /\ prevMsg.type = "MouseMsg" /\ prevMsg.Action = "press"

\* the drag of handleID by deltaX from proportions p at width w is applied
\* and triggers none of the four clamps
unclampedDrag(p, w, handleID, deltaX) ==
    /\ dragApplies(p, w, handleID)
    /\ LET l == findHandleIndex(Len(p), handleID) + 1
       IN  noClampFires(p[l], p[l + 1], deltaX, availableWidth(w, Len(p)))

\* the last step dragged a handle forth and back and neither drag was clamped
UnclampedRoundTrip ==
    /\ lastMsg.type = "dragThenBack"
    /\ unclampedDrag(lastMsg.before, width, lastMsg.handleID, lastMsg.deltaX)
    /\ unclampedDrag(lastMsg.between, width, lastMsg.handleID, -lastMsg.deltaX)

(* C28: unclamped drags are reversible: at a fixed container width with
   availableWidth > 0, if a drag of handle h by +d and the following drag of
   the same handle by -d both trigger none of the four clamps, the
   proportion vector after the two drags equals the vector before them, and
   so do the pane widths computed from it. *)
C28_UnclampedDragsReverse ==
    UnclampedRoundTrip =>
        /\ proportions = lastMsg.before
        /\ childMsgs(width, height, proportions) =
               childMsgs(width, height, lastMsg.before)

\* an unclamped round trip on three panes that passed through other proportions
C28_Witness ==
    /\ UnclampedRoundTrip
    /\ N = 3
    /\ lastMsg.between # lastMsg.before

\* the step delivered a searchResultsMsg computed for another query than the
\* model's current searchQuery
StaleResultStep ==
    /\ steps' # steps
    /\ searchLog'.msg.type = "searchResultsMsg"
    /\ searchLog'.msg.query # search.searchQuery

\* a stale result changes neither the table rows nor the status message
StaleResultDropped ==
    StaleResultStep =>
        /\ search'.rows = search.rows
        /\ search'.statusMessage = search.statusMessage

\* the step issued a search command
IssueStep == steps' # steps /\ searchLog'.issued # {}

\* the search issued by the step differs in query or limit from the last one
\* issued before it (or is the first)
DiffersFromLastIssued ==
    \A c \in searchLog'.issued :
        \/ searchLog.lastIssued = NoSearch
        \/ c.query # searchLog.lastIssued.query
        \/ c.limit # searchLog.lastIssued.limit

(* C29, as stated: a searchResultsMsg whose query differs from the model's
   current searchQuery changes neither the table rows nor the status
   message, under any interleaving of keystrokes and result deliveries; and
   a search command is issued in an update only when the query is non-empty
   and the query or the item limit differs from those of the last issued
   search. *)
C29_StaleDroppedAndIssuedOnChange ==
    [][/\ StaleResultDropped
       /\ IssueStep => (search'.searchQuery # NoQuery /\ DiffersFromLastIssued)]_vars

(* C29, amended: stale results are dropped as stated; a search command is
   issued only when the query is non-empty and the query or the item limit
   differs from those of the last issued search, or ctrl+s has cleared the
   remembered query (in this update or since the last search was issued);
   and every such update issues exactly one search, for the current query
   and limit. *)
C29_StaleDroppedAndIssuedOnChangeOrUnitToggle ==
    [][/\ StaleResultDropped
       /\ IssueStep =>
             /\ search'.searchQuery # NoQuery
             /\ \/ DiffersFromLastIssued
                \/ searchLog'.msg = searchKeyMsg("ctrl+s")
                \/ search.lastQuery = NoQuery
             /\ searchLog'.issued =
                    {runSearch(search'.searchQuery, search'.itemLimit, search'.siUnit)}
             /\ search'.lastQuery = search'.searchQuery
             /\ search'.lastItemLimit = search'.itemLimit]_vars

\* the result of the search for "a" arrived after the query had become "ab",
\* while the search for "ab" was still running, and was dropped
C29_Witness ==
    /\ searchLog.msg.type = "searchResultsMsg"
    /\ searchLog.msg.query = <<"a">>
    /\ ~searchLog.msg.err
    /\ searchLog.msg.rows # NoRows
    /\ search.searchQuery = <<"a", "b">>
    /\ search.rows = NoRows
    /\ search.statusMessage = NoStatus
    /\ runSearch(<<"a", "b">>, initialVisibleRows, FALSE) \in pending

====
